---- MODULE Spec2Model ----
(***************************************************************************)
(* A model of the rnes 6502 core (src/src/main.rs): the Emulator struct,   *)
(* its interrupt entry points, the cycle scheduler, the addressing-mode    *)
(* resolvers and the operations, each translated from its Rust body.       *)
(*                                                                         *)
(* Integer arithmetic keeps Rust's widths.  An overflowing `+=`/`-=`/`+`   *)
(* on a primitive integer panics when the crate is built with overflow     *)
(* checks (the dev profile) and wraps otherwise (the release profile); the *)
(* profile is the variable overflow_checks, chosen once in Init.  A panic  *)
(* aborts the process: the field `panic` of the emulator record holds the  *)
(* message and every later step of the running method is skipped.          *)
(***************************************************************************)
EXTENDS Integers, Sequences, FiniteSets, TLC

VARIABLES
    emu,              \* the Emulator struct (registers flattened in)
    overflow_checks,  \* build profile: TRUE = overflow checks on (panic), FALSE = wrap
    last,             \* history: the last driver call, and the state it was made in
    entry,            \* history: the interrupt entry not yet followed by an instruction
    calls             \* history: how many calls of each kind the driver has made

vars == <<emu, overflow_checks, last, entry, calls>>

----------------------------------------------------------------------------
(* Bounds of the exploration.                                              *)

\* how many instructions the driver lets the core fetch in one run (idle
\* ticks are not counted)
MaxInstr == 5
\* how many irq()/nmi() calls the driver makes in one run
MaxInterrupts == 1
\* how many reset() calls the driver makes in one run
MaxResets == 2
\* how many instructions a run of one repeated instruction fetches
MaxExecuted == 2

----------------------------------------------------------------------------
(* Widths and bit operations.                                              *)

U8 == 2 ^ 8
U16 == 2 ^ 16
MEMORY_SIZE == 65536

NoPanic == "none"
AddOverflow == "attempt to add with overflow"
SubOverflow == "attempt to subtract with overflow"
IndexOutOfBounds == "index out of bounds"
UnknownAddressingState == "Unknown Addressing State"
AddressingModeNotInTable == "Addressing Mode Not In Instruction Table"
OperationNotInTable == "Operation Not In Instruction Table"
OpcodeNotInTable == "Opcode Not In Instruction Table!"

RECURSIVE BitAnd(_, _)
BitAnd(x, y) ==
    IF x = 0 \/ y = 0 THEN 0
    ELSE (x % 2) * (y % 2) + 2 * BitAnd(x \div 2, y \div 2)

RECURSIVE BitOr(_, _)
BitOr(x, y) ==
    IF x = 0 THEN y
    ELSE IF y = 0 THEN x
    ELSE (IF x % 2 = 1 \/ y % 2 = 1 THEN 1 ELSE 0) + 2 * BitOr(x \div 2, y \div 2)

RECURSIVE BitXor(_, _)
BitXor(x, y) ==
    IF x = 0 THEN y
    ELSE IF y = 0 THEN x
    ELSE ((x + y) % 2) + 2 * BitXor(x \div 2, y \div 2)

\* !x on a u8
BitNot8(x) == (U8 - 1) - x

\* 1 << n
Shl1(n) == 2 ^ n

Ok(e) == e.panic = NoPanic

\* a plain field assignment
Set(e, field, v) == IF Ok(e) THEN [e EXCEPT ![field] = v] ELSE e

Panic(e, msg) == IF Ok(e) THEN [e EXCEPT !.panic = msg] ELSE e

\* field = v, where v is the mathematical result of an unchecked-width
\* `+`/`-` whose type has `width` values
Arith(e, field, v, width) ==
    IF ~Ok(e) THEN e
    ELSE IF v >= 0 /\ v < width THEN [e EXCEPT ![field] = v]
    ELSE IF overflow_checks
         THEN Panic(e, IF v < 0 THEN SubOverflow ELSE AddOverflow)
         ELSE [e EXCEPT ![field] = v % width]

\* whether the primitive addition/subtraction with result v traps
Traps(v, width) == overflow_checks /\ (v < 0 \/ v >= width)

\* a method's result: the struct after the call and the returned u8
Ret(e, r) == [emu |-> e, ret |-> r]

----------------------------------------------------------------------------
(* Free functions.                                                         *)

get_flag(flags, which_bit) == BitAnd(flags, Shl1(which_bit))

set_bit(original_u8, bit_to_set) == BitOr(original_u8, Shl1(bit_to_set))

unset_bit(original_u8, bit_to_unset) ==
    BitAnd(original_u8, BitNot8(Shl1(bit_to_unset)))

----------------------------------------------------------------------------
(* The opcode table.                                                       *)

Instruction(m, o, c) == [address_mode |-> m, operation |-> o, cycles |-> c]

INSTRUCTION_TABLE ==
    (64  :> Instruction("Implied", "RTI", 6)) @@
    (120 :> Instruction("Implied", "SEI", 2)) @@
    (216 :> Instruction("Implied", "CLD", 2)) @@
    (0   :> Instruction("Implied", "BRK", 7)) @@
    (162 :> Instruction("Immediate", "LDX", 2)) @@
    (169 :> Instruction("Immediate", "LDA", 2)) @@
    (149 :> Instruction("ZeroPageX", "STA", 4)) @@
    (202 :> Instruction("Implied", "DEX", 2)) @@
    (232 :> Instruction("Implied", "INX", 2)) @@
    (154 :> Instruction("Implied", "TXS", 2)) @@
    (208 :> Instruction("Relative", "BNE", 2)) @@
    (105 :> Instruction("Immediate", "ADC", 2)) @@
    (101 :> Instruction("ZeroPage", "ADC", 3)) @@
    (117 :> Instruction("ZeroPageX", "ADC", 4)) @@
    (109 :> Instruction("Absolute", "ADC", 4)) @@
    (125 :> Instruction("AbsoluteX", "ADC", 4)) @@
    (121 :> Instruction("AbsoluteY", "ADC", 4)) @@
    (97  :> Instruction("IndirectX", "ADC", 6)) @@
    (113 :> Instruction("IndirectY", "ADC", 5))

----------------------------------------------------------------------------
(* Memory: the [u8; 65536] array, kept as the function of its non-zero     *)
(* bytes (every other byte is 0, as Emulator::new leaves it).              *)

MemGet(mem, address) == IF address \in DOMAIN mem THEN mem[address] ELSE 0

MemSet(mem, address, value) ==
    IF value = 0
    THEN [a \in (DOMAIN mem) \ {address} |-> mem[a]]
    ELSE [a \in (DOMAIN mem) \cup {address} |-> IF a = address THEN value ELSE mem[a]]

\* every caller passes an index below 65536 (a u16, or 0x0100 + a u8)
read_byte(e, address) == MemGet(e.memory, address)

write_byte(e, address, value) ==
    IF ~Ok(e) THEN e
    ELSE IF address >= MEMORY_SIZE THEN Panic(e, IndexOutOfBounds)
    ELSE [e EXCEPT !.memory = MemSet(@, address, value)]

\* the struct after the call and the returned u16: the byte at `address` goes
\* to the high half, the byte after it to the low half, and the program
\* counter moves on; an index of 65536 or more is out of the array's bounds
read_address(e, address) ==
    LET word(x) ==
            Ret(x, IF Ok(x)
                   THEN BitOr(MemGet(e.memory, address) * 256,
                              MemGet(e.memory, address + 1))
                   ELSE 0)
        index(x) == IF address + 1 >= MEMORY_SIZE THEN Panic(x, IndexOutOfBounds)
                    ELSE x
        advance(x) == Arith(x, "program_counter", x.program_counter + 1, U16)
    IN  word(advance(index(e)))

new ==
    [a_reg |-> 0, y_reg |-> 0, x_reg |-> 0, stack_pointer |-> 0,
     program_counter |-> 0, cpu_flags |-> 0,
     memory |-> [a \in {} |-> 0],
     current_mode |-> "Null", fetched_data |-> 0,
     address_absolute |-> 0, address_relative |-> 0,
     opcode |-> 0, cycles |-> 0,
     panic |-> NoPanic]

----------------------------------------------------------------------------
(* Each method is the composition of its statements, in source order; a    *)
(* statement is a local operator on the struct it is reached with.         *)

(* Interrupt controller.                                                   *)

nmi(e) ==
    LET push_pch(x) == write_byte(x, 256 + x.stack_pointer, (x.program_counter \div 256) % 256)
        dec_sp(x)   == Arith(x, "stack_pointer", x.stack_pointer - 1, U8)
        push_pcl(x) == write_byte(x, 256 + x.stack_pointer, x.program_counter % 256)
        set_b(x)    == Set(x, "cpu_flags", set_bit(x.cpu_flags, 4))
        set_u(x)    == Set(x, "cpu_flags", set_bit(x.cpu_flags, 5))
        set_i(x)    == Set(x, "cpu_flags", set_bit(x.cpu_flags, 2))
        push_p(x)   == write_byte(x, 256 + x.stack_pointer, x.cpu_flags)
        vector(x)   == Set(x, "address_absolute", 65530)
        load_pc(x)  == Set(x, "program_counter",
                           BitOr(read_byte(x, x.address_absolute + 1) * 256,
                                 read_byte(x, x.address_absolute + 0)))
        charge(x)   == Set(x, "cycles", 8)
    IN  charge(load_pc(vector(dec_sp(push_p(set_i(set_u(set_b(
            dec_sp(push_pcl(dec_sp(push_pch(e))))))))))))

irq(e) ==
    LET push_pch(x) == write_byte(x, 256 + x.stack_pointer, (x.program_counter \div 256) % 256)
        dec_sp(x)   == Arith(x, "stack_pointer", x.stack_pointer - 1, U8)
        push_pcl(x) == write_byte(x, 256 + x.stack_pointer, x.program_counter % 256)
        set_b(x)    == Set(x, "cpu_flags", set_bit(x.cpu_flags, 4))
        set_u(x)    == Set(x, "cpu_flags", set_bit(x.cpu_flags, 5))
        set_i(x)    == Set(x, "cpu_flags", set_bit(x.cpu_flags, 2))
        push_p(x)   == write_byte(x, 256 + x.stack_pointer, x.cpu_flags)
        vector(x)   == Set(x, "address_absolute", 65534)
        load_pc(x)  == Set(x, "program_counter",
                           BitOr(read_byte(x, x.address_absolute + 1) * 256,
                                 read_byte(x, x.address_absolute + 0)))
        charge(x)   == Set(x, "cycles", 7)
    IN  IF get_flag(e.cpu_flags, 2) = 0
        THEN charge(load_pc(vector(dec_sp(push_p(set_i(set_u(set_b(
                 dec_sp(push_pcl(dec_sp(push_pch(e))))))))))))
        ELSE e

\* reset() that forgets to clear the flag byte
reset_keeps_flags(e) ==
    LET clear(x)   == [x EXCEPT !.a_reg = 0, !.x_reg = 0, !.y_reg = 0,
                                !.stack_pointer = 253,
                                !.address_absolute = 65532]
        load_pc(x) == Set(x, "program_counter",
                          BitOr(read_byte(x, x.address_absolute + 1) * 256,
                                read_byte(x, x.address_absolute + 0)))
        context(x) == [x EXCEPT !.address_relative = 0, !.address_absolute = 0,
                                !.fetched_data = 0, !.cycles = 8]
    IN  context(load_pc(clear(e)))

reset(e) ==
    LET clear(x)   == [x EXCEPT !.a_reg = 0, !.x_reg = 0, !.y_reg = 0,
                                !.stack_pointer = 253, !.cpu_flags = 0,
                                !.address_absolute = 65532]
        load_pc(x) == Set(x, "program_counter",
                          BitOr(read_byte(x, x.address_absolute + 1) * 256,
                                read_byte(x, x.address_absolute + 0)))
        context(x) == [x EXCEPT !.address_relative = 0, !.address_absolute = 0,
                                !.fetched_data = 0, !.cycles = 8]
    IN  context(load_pc(clear(e)))

----------------------------------------------------------------------------
(* Operand fetch and the addressing-mode resolvers.                        *)

fetch(e) ==
    IF ~Ok(e) THEN Ret(e, 0)
    ELSE IF e.current_mode \in {"Implied", "Immediate"}
         THEN Ret(e, read_byte(e, e.address_absolute))
         ELSE Ret(Panic(e, UnknownAddressingState), 0)

implied_mode(e) == Ret(Set(e, "fetched_data", e.a_reg), 0)

accumulator_mode(e) == Ret(Set(e, "fetched_data", 0), 0)

\* self.registers.program_counter += 1
inc_pc(e) == Arith(e, "program_counter", e.program_counter + 1, U16)

immediate_mode(e) ==
    LET target(x) == Set(x, "address_absolute", x.program_counter)
    IN  Ret(target(inc_pc(e)), 0)

\* the two operand reads every two-byte resolver starts with: the struct after
\* them, and the bytes read
TwoOperandBytes(e) ==
    LET second(x, low) == [emu |-> inc_pc(x), low |-> low,
                           high |-> read_byte(x, (x.program_counter + 1) % U16)]
        first(x) == second(x, read_byte(x, x.program_counter))
    IN  first(inc_pc(e))

\* indirect_mode() that always takes the high byte from ptr + 1
indirect_mode_next_byte(e) ==
    LET resolve(o, ptr) ==
            Set(o.emu, "address_absolute",
                BitOr(read_byte(o.emu, (ptr + 1) % U16) * 256,
                      read_byte(o.emu, ptr + 0)))
        pointer(o) == resolve(o, BitOr(o.high * 256, o.low))
    IN  Ret(pointer(TwoOperandBytes(e)), 0)

indirect_mode(e) ==
    LET resolve(o, ptr) ==
            IF o.low = 255
            THEN Set(o.emu, "address_absolute",
                     BitOr(read_byte(o.emu, BitAnd(ptr, 65280)) * 256,
                           read_byte(o.emu, ptr + 0)))
            ELSE IF Traps(ptr + 1, U16) THEN Panic(o.emu, AddOverflow)
            ELSE Set(o.emu, "address_absolute",
                     BitOr(read_byte(o.emu, (ptr + 1) % U16) * 256,
                           read_byte(o.emu, ptr + 0)))
        pointer(o) == resolve(o, BitOr(o.high * 256, o.low))
    IN  Ret(pointer(TwoOperandBytes(e)), 0)

indirect_mode_page_zero_x(e) ==
    LET resolve(x, ptr) ==
            IF Traps(ptr + x.x_reg, U16) THEN Panic(x, AddOverflow)
            ELSE IF Traps(x.x_reg + 1, U8) THEN Panic(x, AddOverflow)
            ELSE IF Traps(ptr + ((x.x_reg + 1) % U8), U16) THEN Panic(x, AddOverflow)
            ELSE Set(x, "address_absolute",
                     BitOr(BitAnd(read_byte(x, (ptr + ((x.x_reg + 1) % U8)) % U16), 255) * 256,
                           BitAnd(read_byte(x, (ptr + x.x_reg) % U16), 255)))
        pointer(o) == resolve(o.emu, BitOr(o.high * 256, o.low))
    IN  Ret(pointer(TwoOperandBytes(e)), 0)

indirect_mode_page_zero_y(e) ==
    LET crossed(x, high) ==
            Ret(x, IF Ok(x) /\ BitAnd(x.address_absolute, 65280) # high * 256
                   THEN 1 ELSE 0)
        resolve(x, ptr) ==
            IF Traps(ptr + 1, U16) THEN Panic(x, AddOverflow)
            ELSE Set(x, "address_absolute",
                     BitOr(read_byte(x, BitAnd((ptr + 1) % U16, 255)) * 256,
                           read_byte(x, BitAnd(ptr, 255))))
        pointer(o) == crossed(resolve(o.emu, BitOr(o.high * 256, o.low)), o.high)
    IN  pointer(TwoOperandBytes(e))

absolute_mode(e) ==
    LET target(o) == Set(o.emu, "address_absolute", BitOr(o.high * 256, o.low))
    IN  Ret(target(TwoOperandBytes(e)), 0)

absolute_mode_x(e) ==
    LET crossed(x, high) ==
            Ret(x, IF Ok(x) /\ BitAnd(x.address_absolute, 65280) # high * 256
                   THEN 1 ELSE 0)
        index(x) == Arith(x, "address_absolute", x.address_absolute + x.x_reg, U16)
        target(o) ==
            crossed(index(Set(o.emu, "address_absolute", BitOr(o.high * 256, o.low))),
                    o.high)
    IN  target(TwoOperandBytes(e))

absolute_mode_y(e) ==
    LET crossed(x, high) ==
            Ret(x, IF Ok(x) /\ BitAnd(x.address_absolute, 65280) # high * 256
                   THEN 1 ELSE 0)
        index(x) == Arith(x, "address_absolute", x.address_absolute + x.y_reg, U16)
        target(o) ==
            crossed(index(Set(o.emu, "address_absolute", BitOr(o.high * 256, o.low))),
                    o.high)
    IN  target(TwoOperandBytes(e))

zero_page_mode(e) ==
    LET target(x) == Set(x, "address_absolute",
                         BitAnd(read_byte(x, x.program_counter), 255))
    IN  Ret(target(inc_pc(e)), 0)

zero_page_x_mode(e) ==
    LET target(x, val) ==
            IF Ok(x) /\ Traps(val, U8) THEN Panic(x, AddOverflow)
            ELSE Set(x, "address_absolute", BitAnd(val % U8, 255))
        operand(x) == target(x, read_byte(x, x.program_counter) + x.x_reg)
    IN  Ret(operand(inc_pc(e)), 0)

zero_page_y_mode(e) ==
    LET target(x, val) ==
            IF Ok(x) /\ Traps(val, U8) THEN Panic(x, AddOverflow)
            ELSE Set(x, "address_absolute", BitAnd(val % U8, 255))
        operand(x) == target(x, read_byte(x, x.program_counter) + x.y_reg)
    IN  Ret(operand(inc_pc(e)), 0)

relative_mode(e) ==
    LET extend(x) ==
            IF Ok(x) /\ BitAnd(x.address_relative, 128) # 0
            THEN Set(x, "address_relative", BitOr(x.address_relative, 65280))
            ELSE x
        offset(o) == Set(o.emu, "address_relative", BitOr(o.high * 256, o.low))
    IN  Ret(extend(offset(TwoOperandBytes(e))), 0)

----------------------------------------------------------------------------
(* Flag derivation shared by the loads, PLA and the arithmetic.            *)

handle_flags(e, result) ==
    LET carry(x) == Set(x, "cpu_flags",
                        IF result > 255 THEN set_bit(x.cpu_flags, 0)
                        ELSE unset_bit(x.cpu_flags, 0))
        zero(x) == Set(x, "cpu_flags",
                       IF result = 0 THEN set_bit(x.cpu_flags, 1)
                       ELSE unset_bit(x.cpu_flags, 1))
        negative(x) == Set(x, "cpu_flags",
                           IF BitAnd(result, Shl1(7)) # 0 THEN set_bit(x.cpu_flags, 7)
                           ELSE unset_bit(x.cpu_flags, 7))
    IN  negative(zero(carry(e)))

\* the zero/negative update the loads, DEX and TXS spell out inline
ZeroNegative(e, value) ==
    LET zero(x) == Set(x, "cpu_flags",
                       IF value = 0 THEN set_bit(x.cpu_flags, 1)
                       ELSE unset_bit(x.cpu_flags, 1))
        negative(x) == Set(x, "cpu_flags",
                           IF BitAnd(value, Shl1(7)) # 0 THEN set_bit(x.cpu_flags, 7)
                           ELSE unset_bit(x.cpu_flags, 7))
    IN  negative(zero(e))

----------------------------------------------------------------------------
(* Operations.                                                             *)

sei(e) == Ret(Set(e, "cpu_flags", set_bit(e.cpu_flags, 2)), 0)

rti(e) ==
    LET \* wrap_sp is a Wrapping<u16>: 0xFF + 1 is 0x0100, and the flag byte is
        \* read at wrap_sp + 0x0100 before the u8 pointer is used again
        pull_p(x, wrap_sp) ==
            Set(Set(x, "stack_pointer", wrap_sp % U8),
                "cpu_flags", read_byte(x, (wrap_sp + 256) % U16))
        first(x)   == pull_p(x, (x.stack_pointer + 1) % U16)
        clear_b(x) == Set(x, "cpu_flags", unset_bit(x.cpu_flags, 4))
        clear_u(x) == Set(x, "cpu_flags", unset_bit(x.cpu_flags, 5))
        inc_sp(x)  == Arith(x, "stack_pointer", x.stack_pointer + 1, U8)
        pull_lo(x) == Set(x, "program_counter", read_byte(x, 256 + x.stack_pointer))
        pull_hi(x) == Set(x, "program_counter",
                          BitOr(x.program_counter,
                                read_byte(x, 256 + x.stack_pointer) * 256))
    IN  Ret(pull_hi(inc_sp(pull_lo(inc_sp(clear_u(clear_b(first(e))))))), 0)

clc(e) == Set(e, "cpu_flags", unset_bit(e.cpu_flags, 0))

\* cld() that flips the decimal bit
cld_toggles_decimal(e) == Set(e, "cpu_flags", BitXor(e.cpu_flags, Shl1(3)))

cld(e) == Set(e, "cpu_flags", unset_bit(e.cpu_flags, 3))

sta(e) == Ret(write_byte(e, e.address_absolute, e.a_reg), 0)

inx(e) ==
    LET add(x)      == Set(x, "x_reg", ((x.x_reg + 1) % U16) % U8)
        zero(x)     == IF x.x_reg = 0
                       THEN Set(x, "cpu_flags", set_bit(x.cpu_flags, 1))
                       ELSE x
        negative(x) == IF BitAnd(x.x_reg, Shl1(7)) # 0
                       THEN Set(x, "cpu_flags", unset_bit(x.cpu_flags, 7))
                       ELSE x
    IN  Ret(negative(zero(add(e))), 0)

dex(e) ==
    LET sub(x)   == Set(x, "x_reg", ((x.x_reg - 1) % U16) % U8)
        flags(x) == ZeroNegative(x, x.x_reg)
    IN  Ret(flags(sub(e)), 0)

\* the page test of the loads: cycles += 1 when the operand's page is not the
\* program counter's
LoadPageCharge(e) ==
    IF Ok(e) /\ BitAnd(e.address_absolute, 65280) # BitAnd(e.program_counter, 65280)
    THEN Arith(e, "cycles", e.cycles + 1, U8)
    ELSE e

lda(e) ==
    LET load(f) ==
            ZeroNegative(LoadPageCharge(Set(handle_flags(f.emu, f.ret), "a_reg", f.ret)),
                         f.ret)
    IN  Ret(load(fetch(e)), 0)

ldx(e) ==
    LET load(f) ==
            ZeroNegative(LoadPageCharge(Set(handle_flags(f.emu, f.ret), "x_reg", f.ret)),
                         f.ret)
    IN  Ret(load(fetch(e)), 0)

txs(e) ==
    LET copy(x)  == Set(x, "stack_pointer", x.x_reg)
        flags(x) == ZeroNegative(x, x.stack_pointer)
    IN  Ret(flags(copy(e)), 0)

pha(e) ==
    LET push(x)   == write_byte(x, 256 + x.stack_pointer, x.a_reg)
        dec_sp(x) == Arith(x, "stack_pointer", x.stack_pointer - 1, U8)
    IN  Ret(dec_sp(push(e)), 0)

pla(e) ==
    LET inc_sp(x) == Arith(x, "stack_pointer", x.stack_pointer + 1, U8)
        pull(x)   == Set(x, "a_reg", read_byte(x, 256 + x.stack_pointer))
        flags(x)  == handle_flags(x, x.a_reg)
    IN  Ret(flags(pull(inc_sp(e))), 0)

\* adc() that leaves the carry flag out of the sum
adc_without_carry_in(e) ==
    LET store(x, tmp) == Set(x, "a_reg", BitAnd(tmp, 255))
        sum(x, tmp) == store(handle_flags(x, tmp), tmp)
        add(f) == sum(f.emu, f.emu.a_reg + f.ret)
    IN  Ret(add(fetch(e)), 1)

adc(e) ==
    LET \* `x & y & 0x0080 == 1` compares the masked value with 1, and both arms
        \* call set_bit/unset_bit and drop the byte they return
        overflow(x, a, fetched, tmp) ==
            IF BitAnd(BitAnd(BitXor(a, fetched), BitXor(a, tmp)), 128) = 1
            THEN (LET dropped == set_bit(x.cpu_flags, 6) IN x)
            ELSE (LET dropped == unset_bit(x.cpu_flags, 6) IN x)
        store(x, tmp) == Set(x, "a_reg", BitAnd(tmp, 255))
        sum(x, a, fetched, tmp) ==
            store(overflow(handle_flags(x, tmp), a, fetched, tmp), tmp)
        add(f) == sum(f.emu, f.emu.a_reg, f.ret,
                      f.emu.a_reg + f.ret + get_flag(f.emu.cpu_flags, 0))
    IN  Ret(add(fetch(e)), 1)

\* bne() that never branches
bne_never_taken(e) == Ret(e, 0)

bne(e) ==
    LET charge(x) == Arith(x, "cycles", x.cycles + 1, U8)
        target(x) == Set(x, "address_absolute",
                         (x.program_counter + x.address_relative) % U16)
        page(x)   == IF Ok(x) /\ BitAnd(x.address_absolute, 65280)
                                    # BitAnd(x.program_counter, 65280)
                     THEN Arith(x, "cycles", x.cycles + 1, U8)
                     ELSE x
        jump(x)   == Set(x, "program_counter", x.address_absolute)
    IN  IF Ok(e) /\ get_flag(e.cpu_flags, 1) = 0
        THEN Ret(jump(page(target(charge(e)))), 0)
        ELSE Ret(e, 0)

----------------------------------------------------------------------------
(* The executor and the scheduler.                                         *)

\* the addressing-mode match: the resolver's result for the descriptor's mode
AddressingArm(e, mode) ==
    CASE mode = "Implied"   -> implied_mode(e)
      [] mode = "Immediate" -> immediate_mode(e)
      [] mode = "ZeroPage"  -> zero_page_mode(e)
      [] mode = "ZeroPageX" -> zero_page_x_mode(e)
      [] mode = "ZeroPageY" -> zero_page_y_mode(e)
      [] mode = "Absolute"  -> absolute_mode(e)
      [] mode = "AbsoluteX" -> absolute_mode_x(e)
      [] mode = "AbsoluteY" -> absolute_mode_y(e)
      [] mode = "IndirectX" -> indirect_mode_page_zero_x(e)
      [] mode = "IndirectY" -> indirect_mode_page_zero_y(e)
      [] mode = "Relative"  -> relative_mode(e)
      [] OTHER              -> Ret(Panic(e, AddressingModeNotInTable), 0)

\* self.cycles += <the u8 a method returned>
Charge(r) == Arith(r.emu, "cycles", r.emu.cycles + r.ret, U8)

\* the operation match
OperationArm(e, operation) ==
    IF ~Ok(e) THEN e
    ELSE CASE operation = "RTI" -> Charge(rti(e))
           [] operation = "BRK" -> e
           [] operation = "SEI" -> sei(e).emu
           [] operation = "CLD" -> cld(e)
           [] operation = "LDX" -> Charge(ldx(ldx(e).emu))
           [] operation = "TXS" -> Charge(txs(e))
           [] operation = "LDA" -> Charge(lda(e))
           [] operation = "STA" -> Charge(sta(e))
           [] operation = "DEX" -> Charge(dex(e))
           [] operation = "INX" -> Charge(inx(e))
           [] operation = "BNE" -> Charge(bne(e))
           [] OTHER             -> Panic(e, OperationNotInTable)

\* execute_instruction() that steps over an opcode the table does not have
execute_instruction_skips_unknown(e) ==
    LET run(instruction) ==
            LET base(x)     == Arith(x, "cycles", x.cycles + instruction.cycles, U8)
                resolve(x)  == Charge(AddressingArm(x, instruction.address_mode))
                tag(x)      == Set(x, "current_mode", instruction.address_mode)
                operate(x)  == OperationArm(x, instruction.operation)
                advance(x)  == IF instruction.operation = "BNE" THEN x ELSE inc_pc(x)
            IN  advance(operate(tag(resolve(base(e)))))
    IN  IF ~Ok(e) THEN e
        ELSE IF e.opcode \notin DOMAIN INSTRUCTION_TABLE THEN inc_pc(e)
        ELSE run(INSTRUCTION_TABLE[e.opcode])

execute_instruction(e) ==
    LET run(instruction) ==
            LET base(x)     == Arith(x, "cycles", x.cycles + instruction.cycles, U8)
                resolve(x)  == Charge(AddressingArm(x, instruction.address_mode))
                tag(x)      == Set(x, "current_mode", instruction.address_mode)
                operate(x)  == OperationArm(x, instruction.operation)
                advance(x)  == IF instruction.operation = "BNE" THEN x ELSE inc_pc(x)
            IN  advance(operate(tag(resolve(base(e)))))
    IN  IF ~Ok(e) THEN e
        ELSE IF e.opcode \notin DOMAIN INSTRUCTION_TABLE THEN Panic(e, OpcodeNotInTable)
        ELSE run(INSTRUCTION_TABLE[e.opcode])

\* clock() whose decrement sits in an else branch
clock_fetch_or_tick(e) ==
    LET fetch_opcode(x) == Set(x, "opcode", read_byte(x, x.program_counter))
        tick(x) == Arith(x, "cycles", x.cycles - 1, U8)
    IN  IF e.cycles = 0
        THEN execute_instruction(fetch_opcode(e))
        ELSE tick(e)

\* clock() that fetches the next instruction one tick early
clock_refetches_early(e) ==
    LET fetch_opcode(x) == Set(x, "opcode", read_byte(x, x.program_counter))
        tick(x) == Arith(x, "cycles", x.cycles - 1, U8)
    IN  IF e.cycles <= 1
        THEN tick(execute_instruction(fetch_opcode(e)))
        ELSE tick(e)

\* clock() that decrements without looking at the counter
clock_always_decrements(e) == Arith(e, "cycles", e.cycles - 1, U8)

clock(e) ==
    LET fetch_opcode(x) == Set(x, "opcode", read_byte(x, x.program_counter))
        tick(x) == Arith(x, "cycles", x.cycles - 1, U8)
    IN  IF e.cycles = 0
        THEN tick(execute_instruction(fetch_opcode(e)))
        ELSE tick(e)

----------------------------------------------------------------------------
(* Memory images the loader collaborator leaves behind: the three vectors, *)
(* a program at the reset target and an RTI at each interrupt target.      *)

\* the non-zero bytes of `bytes` laid out from `base`
Image(base, bytes) ==
    [a \in {base + i - 1 : i \in {j \in 1..Len(bytes) : bytes[j] # 0}} |->
        bytes[a - base + 1]]

\* a little-endian vector
Vector(at, target) == Image(at, <<target % 256, target \div 256>>)

NMI_HANDLER == 9 * 4096
IRQ_HANDLER == 9 * 4096 + 16

Handlers ==
    Vector(65530, NMI_HANDLER) @@ Vector(65534, IRQ_HANDLER) @@
    Image(NMI_HANDLER, <<64>>) @@ Image(IRQ_HANDLER, <<64>>)

\* LDX #k ; TXS ; LDA #$80
StackProgram(k) == <<162, k, 154, 169, 128>>
\* SEI ; CLD ; LDA #0 ; INX
FlagProgram == <<120, 216, 169, 0, 232>>
\* LDX #2 ; DEX ; BNE -3 ; INX
LoopProgram == <<162, 2, 202, 208, 253, 232>>
\* LDX #x ; LDA #$55 ; STA o,X
StoreProgram(o, x) == <<162, x, 169, 85, 149, o>>
\* LDA #$7F ; ADC #1
AdcProgram == <<169, 127, 105, 1>>
\* LDX #$FF ; INX ; NOP (no table entry)
NopProgram == <<162, 255, 232, 234>>
\* LDA #1 ; BNE +2 ; (skipped) ; DEX
ForwardProgram == <<169, 1, 208, 2, 232, 232, 202>>

Programs ==
    {StackProgram(k) : k \in {0, 1, 2, 255}} \cup
    {StoreProgram(255, 2), StoreProgram(16, 1)} \cup
    {FlagProgram, LoopProgram, AdcProgram, NopProgram, ForwardProgram}

\* reset targets: the start of the cartridge window, and three bytes short of
\* a page end (so that LoopProgram's branch crosses a page)
Origins == {32768, 33020}

Images ==
    {Handlers @@ Vector(65532, org) @@ Image(org, prog) :
        org \in Origins, prog \in Programs}
    \cup {[a \in {} |-> 0]}

----------------------------------------------------------------------------
(* The driver: reset() once before anything else, then clock(), irq() and  *)
(* nmi() in any order.  A panic ends the run.                              *)

NoEntry == [kind |-> "none", p |-> 0, s |-> 0, f |-> 0]

Init ==
    /\ overflow_checks \in BOOLEAN
    /\ \E image \in Images : emu = [new EXCEPT !.memory = image]
    /\ last = [op |-> "new", emu |-> new, entry |-> NoEntry]
    /\ entry = NoEntry
    /\ calls = [instr |-> 0, intr |-> 0, reset |-> 0]

Reset ==
    /\ Ok(emu)
    /\ calls.reset < MaxResets
    /\ emu' = reset(emu)
    /\ last' = [op |-> "reset", emu |-> emu, entry |-> entry]
    /\ entry' = NoEntry
    /\ calls' = [calls EXCEPT !.reset = @ + 1]
    /\ UNCHANGED overflow_checks

Clock ==
    /\ Ok(emu)
    /\ calls.reset > 0
    /\ emu.cycles # 0 \/ calls.instr < MaxInstr
    /\ emu' = clock(emu)
    /\ last' = [op |-> "clock", emu |-> emu, entry |-> entry]
    /\ entry' = IF emu.cycles = 0 THEN NoEntry ELSE entry
    /\ calls' = IF emu.cycles = 0 THEN [calls EXCEPT !.instr = @ + 1] ELSE calls
    /\ UNCHANGED overflow_checks

Irq ==
    /\ Ok(emu)
    /\ calls.reset > 0
    /\ calls.intr < MaxInterrupts
    /\ emu' = irq(emu)
    /\ last' = [op |-> "irq", emu |-> emu, entry |-> entry]
    /\ entry' = IF get_flag(emu.cpu_flags, 2) # 0 THEN entry
                ELSE [kind |-> "irq", p |-> emu.program_counter,
                      s |-> emu.stack_pointer, f |-> emu.cpu_flags]
    /\ calls' = [calls EXCEPT !.intr = @ + 1]
    /\ UNCHANGED overflow_checks

Nmi ==
    /\ Ok(emu)
    /\ calls.reset > 0
    /\ calls.intr < MaxInterrupts
    /\ emu' = nmi(emu)
    /\ last' = [op |-> "nmi", emu |-> emu, entry |-> entry]
    /\ entry' = [kind |-> "nmi", p |-> emu.program_counter,
                 s |-> emu.stack_pointer, f |-> emu.cpu_flags]
    /\ calls' = [calls EXCEPT !.intr = @ + 1]
    /\ UNCHANGED overflow_checks

Next == Reset \/ Clock \/ Irq \/ Nmi

Spec == Init /\ [][Next]_vars

----------------------------------------------------------------------------
(* Direct calls of methods the executor never reaches: adc() (the          *)
(* operation match has no ADC arm) on a struct an Immediate resolution     *)
(* left, and the two zero-page indexed resolvers on a struct whose program *)
(* counter is at an opcode.                                                *)

OPERAND_AT == 8 * 4096 + 1

\* flag bytes adc() is entered with: carry and overflow clear, either one set,
\* and both set together with zero and negative
AdcFlags == {0, 1, 64, 195}

InitAdc ==
    /\ overflow_checks \in BOOLEAN
    /\ \E a \in 0..255, b \in 0..255, f \in AdcFlags :
          emu = [new EXCEPT !.a_reg = a, !.cpu_flags = f,
                            !.current_mode = "Immediate",
                            !.program_counter = OPERAND_AT,
                            !.address_absolute = OPERAND_AT,
                            !.memory = Image(OPERAND_AT, <<b>>)]
    /\ last = [op |-> "new", emu |-> new, entry |-> NoEntry]
    /\ entry = NoEntry
    /\ calls = [instr |-> 0, intr |-> 0, reset |-> 0]

AdcCall ==
    /\ last.op = "new"
    /\ emu' = adc(emu).emu
    /\ last' = [op |-> "adc", emu |-> emu, entry |-> entry]
    /\ UNCHANGED <<overflow_checks, entry, calls>>

NextAdc == AdcCall

SpecAdc == InitAdc /\ [][NextAdc]_vars

InitZeroPage ==
    /\ overflow_checks \in BOOLEAN
    /\ \E o \in 0..255, i \in 0..255, reg \in {"x_reg", "y_reg"} :
          emu = [[new EXCEPT !.program_counter = OPERAND_AT - 1,
                             !.memory = Image(OPERAND_AT, <<o>>)]
                    EXCEPT ![reg] = i]
    /\ last = [op |-> "new", emu |-> new, entry |-> NoEntry]
    /\ entry = NoEntry
    /\ calls = [instr |-> 0, intr |-> 0, reset |-> 0]

ZeroPageXCall ==
    /\ last.op = "new"
    /\ emu' = zero_page_x_mode(emu).emu
    /\ last' = [op |-> "zero_page_x_mode", emu |-> emu, entry |-> entry]
    /\ UNCHANGED <<overflow_checks, entry, calls>>

ZeroPageYCall ==
    /\ last.op = "new"
    /\ emu' = zero_page_y_mode(emu).emu
    /\ last' = [op |-> "zero_page_y_mode", emu |-> emu, entry |-> entry]
    /\ UNCHANGED <<overflow_checks, entry, calls>>

NextZeroPage == ZeroPageXCall \/ ZeroPageYCall

SpecZeroPage == InitZeroPage /\ [][NextZeroPage]_vars

\* a function from addresses to bytes as the sparse memory holds it
Sparse(f) == [a \in {x \in DOMAIN f : f[x] # 0} |-> f[a]]

\* pointer bytes given to indirect_mode(): page starts, page ends and the
\* bytes next to them, in page zero, the stack's neighbour and the last page
PointerLows == {0, 1, 254, 255}
PointerHighs == {0, 2, 255}
\* what the three bytes a pointer can name hold
CellBytes == {0, 18, 128}

\* the byte the pointer names, the byte after it and the first byte of its
\* page
PointerCells(ptr) == {ptr, (ptr + 1) % U16, ptr - (ptr % 256)}

InitIndirect ==
    /\ overflow_checks \in BOOLEAN
    /\ \E low \in PointerLows, high \in PointerHighs :
          \E cells \in [PointerCells(high * 256 + low) -> CellBytes] :
             emu = [new EXCEPT !.program_counter = OPERAND_AT - 1,
                               !.memory = Image(OPERAND_AT, <<low, high>>)
                                              @@ Sparse(cells)]
    /\ last = [op |-> "new", emu |-> new, entry |-> NoEntry]
    /\ entry = NoEntry
    /\ calls = [instr |-> 0, intr |-> 0, reset |-> 0]

IndirectCall ==
    /\ last.op = "new"
    /\ emu' = indirect_mode(emu).emu
    /\ last' = [op |-> "indirect_mode", emu |-> emu, entry |-> entry]
    /\ UNCHANGED <<overflow_checks, entry, calls>>

NextIndirect == IndirectCall

SpecIndirect == InitIndirect /\ [][NextIndirect]_vars

\* accumulator values pushed: zero, one, the sign bit alone and all ones
PushedBytes == {0, 1, 128, 255}
\* what the stack page holds before the push
STALE == 5 * 17

\* pha() and then pla() on every stack pointer; `entry` keeps the accumulator,
\* the stack pointer and the flags the push was made with
InitStack ==
    /\ overflow_checks \in BOOLEAN
    /\ \E v \in PushedBytes, s \in 0..255 :
          emu = [new EXCEPT !.a_reg = v, !.stack_pointer = s,
                            !.memory = Image(256 + s, <<STALE>>)]
    /\ last = [op |-> "new", emu |-> new, entry |-> NoEntry]
    /\ entry = NoEntry
    /\ calls = [instr |-> 0, intr |-> 0, reset |-> 0]

PhaCall ==
    /\ last.op = "new"
    /\ emu' = pha(emu).emu
    /\ last' = [op |-> "pha", emu |-> emu, entry |-> entry]
    /\ entry' = [kind |-> "pha", p |-> emu.a_reg, s |-> emu.stack_pointer,
                 f |-> emu.cpu_flags]
    /\ UNCHANGED <<overflow_checks, calls>>

PlaCall ==
    /\ last.op = "pha"
    /\ Ok(emu)
    /\ emu' = pla(emu).emu
    /\ last' = [op |-> "pla", emu |-> emu, entry |-> entry]
    /\ UNCHANGED <<overflow_checks, entry, calls>>

NextStack == PhaCall \/ PlaCall

SpecStack == InitStack /\ [][NextStack]_vars

\* addresses read_address() is given: in page zero, at the end of the stack
\* page, and the last two of memory
WordAddresses == {16, 511, 65534, 65535}
\* what the two bytes there hold
WordBytes == {0, 18, 52}
\* program counters it is called with: in the program, and the last
WordCallers == {OPERAND_AT - 1, 65535}

\* read_address() called once; `entry` keeps the address it was given and
\* the word it returned
InitReadAddress ==
    /\ overflow_checks \in BOOLEAN
    /\ \E addr \in WordAddresses, pc \in WordCallers :
          \E cells \in [{addr, addr + 1} \cap (0..65535) -> WordBytes] :
             /\ emu = [new EXCEPT !.program_counter = pc,
                                  !.memory = Sparse(cells)]
             /\ entry = [kind |-> "argument", p |-> addr, s |-> 0, f |-> 0]
    /\ last = [op |-> "new", emu |-> new, entry |-> NoEntry]
    /\ calls = [instr |-> 0, intr |-> 0, reset |-> 0]

ReadAddressCall ==
    /\ last.op = "new"
    /\ emu' = read_address(emu, entry.p).emu
    /\ entry' = [entry EXCEPT !.kind = "returned",
                              !.f = read_address(emu, entry.p).ret]
    /\ last' = [op |-> "read_address", emu |-> emu, entry |-> entry]
    /\ UNCHANGED <<overflow_checks, calls>>

NextReadAddress == ReadAddressCall

SpecReadAddress == InitReadAddress /\ [][NextReadAddress]_vars

\* zero-page operands of indirect_mode_page_zero_y(): inside the page and at
\* its last byte
ZeroPageOperands == {16, 255}
\* the byte after the operand
FollowingBytes == {0, 18}
\* what the two pointer bytes in page zero hold
PointerBytes == {0, 18, 255}
\* Y register values
IndexYBytes == {0, 1, 255}

\* indirect_mode_page_zero_y() as the IndirectY arm calls it, the counter
\* taking what it returns
InitIndirectY ==
    /\ overflow_checks \in BOOLEAN
    /\ \E z \in ZeroPageOperands, n \in FollowingBytes, y \in IndexYBytes :
          \E cells \in [{z, (z + 1) % 256} -> PointerBytes] :
             emu = [new EXCEPT !.program_counter = OPERAND_AT - 1,
                               !.y_reg = y,
                               !.memory = Image(OPERAND_AT, <<z, n>>)
                                              @@ Sparse(cells)]
    /\ last = [op |-> "new", emu |-> new, entry |-> NoEntry]
    /\ entry = NoEntry
    /\ calls = [instr |-> 0, intr |-> 0, reset |-> 0]

IndirectYCall ==
    /\ last.op = "new"
    /\ emu' = Charge(indirect_mode_page_zero_y(emu))
    /\ last' = [op |-> "indirect_mode_page_zero_y", emu |-> emu, entry |-> entry]
    /\ UNCHANGED <<overflow_checks, entry, calls>>

NextIndirectY == IndirectYCall

SpecIndirectY == InitIndirectY /\ [][NextIndirectY]_vars

----------------------------------------------------------------------------
(* One instruction, repeated, run through clock() from the state a program *)
(* can have brought the core to: every opcode byte, with operand bytes,    *)
(* index values and flag bytes from small sets, and every flag byte for    *)
(* the instructions whose whole effect is on the flags.                    *)

PROGRAM_AT == 8 * 4096

\* operand bytes: zero, a small offset, the sign bit and all ones
OperandBytes == {0, 2, 128, 255}
\* X register values
IndexBytes == {0, 1, 128, 255}
\* flag bytes: none, zero, negative, interrupt-disable with decimal, all
FlagBytes == {0, 2, 128, 12, 255}
\* SEI, CLD and TXS
FlagOpcodes == {120, 216, 154}

InitExecute ==
    /\ overflow_checks \in BOOLEAN
    /\ \E b \in 0..255, x \in IndexBytes :
          \E o \in OperandBytes \cup {b},
             f \in (IF b \in FlagOpcodes THEN 0..255 ELSE FlagBytes) :
             emu = [new EXCEPT !.a_reg = 5 * 17, !.x_reg = x,
                               !.stack_pointer = 253, !.cpu_flags = f,
                               !.program_counter = PROGRAM_AT,
                               !.memory = Image(PROGRAM_AT, <<b, o, b, o>>)]
    /\ last = [op |-> "new", emu |-> new, entry |-> NoEntry]
    /\ entry = NoEntry
    /\ calls = [instr |-> 0, intr |-> 0, reset |-> 0]

ExecuteTick ==
    /\ Ok(emu)
    /\ emu.cycles # 0 \/ calls.instr < MaxExecuted
    /\ emu' = clock(emu)
    /\ last' = [op |-> "clock", emu |-> emu, entry |-> entry]
    /\ calls' = IF emu.cycles = 0 THEN [calls EXCEPT !.instr = @ + 1] ELSE calls
    /\ UNCHANGED <<overflow_checks, entry>>

NextExecute == ExecuteTick

SpecExecute == InitExecute /\ [][NextExecute]_vars

----------------------------------------------------------------------------
(* The countdown loop LDX #n ; DEX ; BNE -3, ticked from its first byte    *)
(* until the program counter is past it.  `entry` keeps where the loop was *)
(* placed and the count it was given.                                      *)

CountdownProgram(n) == <<162, n, 202, 208, 253>>

\* where the loop is placed: at the start of a page, and with the branch in
\* the last byte of a page
LoopOrigins == {PROGRAM_AT, PROGRAM_AT + 252}
\* the byte after the loop: nothing, or an INX
AfterLoop == {0, 232}

InitCountdown ==
    /\ overflow_checks \in BOOLEAN
    /\ \E n \in 1..255, p \in LoopOrigins, b \in AfterLoop :
          /\ emu = [new EXCEPT !.stack_pointer = 253,
                               !.program_counter = p,
                               !.memory = Image(p, CountdownProgram(n) \o <<b>>)]
          /\ entry = [kind |-> "countdown", p |-> p, s |-> n, f |-> 0]
    /\ last = [op |-> "new", emu |-> new, entry |-> NoEntry]
    /\ calls = [instr |-> 0, intr |-> 0, reset |-> 0]

CountdownTick ==
    /\ Ok(emu)
    /\ emu.program_counter # entry.p + 5
    /\ emu' = clock(emu)
    /\ last' = [op |-> "clock", emu |-> emu, entry |-> entry]
    /\ calls' = IF emu.cycles = 0 THEN [calls EXCEPT !.instr = @ + 1] ELSE calls
    /\ UNCHANGED <<overflow_checks, entry>>

NextCountdown == CountdownTick

\* repeated ticking: a run does not rest where CountdownTick can be taken
SpecCountdown ==
    /\ InitCountdown /\ [][NextCountdown]_vars
    /\ []<>~(Ok(emu) /\ emu.program_counter # entry.p + 5)

----------------------------------------------------------------------------
(* Vocabulary of the properties.                                           *)

\* the struct the last call was made on
pre == last.emu

Byte(mem, at) == MemGet(mem, at)

\* the little-endian word at `at`
Word(mem, at) == Byte(mem, at) + 256 * Byte(mem, at + 1)

\* bit n of a byte, as 0 or 1
Bit(byte, n) == (byte \div (2 ^ n)) % 2

\* the byte with bits 4 and 5 cleared
WithoutBreakBits(byte) == byte - 16 * Bit(byte, 4) - 32 * Bit(byte, 5)

\* the last call was a tick that found the counter at zero
FetchTick == last.op = "clock" /\ pre.cycles = 0

\* the last call was a tick that found the counter non-zero
IdleTick == last.op = "clock" /\ pre.cycles # 0

\* the opcode the last fetch tick found at the program counter
FetchedOpcode == Byte(pre.memory, pre.program_counter)

\* the last call entered an interrupt handler, or was meant to
Entering ==
    \/ last.op = "nmi"
    \/ last.op = "irq" /\ Bit(pre.cpu_flags, 2) = 0

\* base cost of a table opcode, and what the resolver and the operation add:
\* only a taken branch adds, 1 and 1 more when it leaves the page of the next
\* instruction (the indexed and indirect resolvers that can add are used by
\* ADC alone, which never completes)
BaseCycles(opcode) == INSTRUCTION_TABLE[opcode].cycles

Surcharges ==
    IF FetchedOpcode = 208 /\ Bit(pre.cpu_flags, 1) = 0
    THEN 1 + (IF emu.program_counter \div 256
                    # ((pre.program_counter + 2) % U16) \div 256 THEN 1 ELSE 0)
    ELSE 0

----------------------------------------------------------------------------
(* C1.  As claimed: a tick that finds the counter at zero runs one         *)
(* instruction and leaves the counter at base + surcharges, a tick that    *)
(* finds it non-zero decrements it, and no tick does both.                 *)
C1_TickFetchesOrDecrements ==
    /\ FetchTick /\ Ok(emu) =>
          /\ emu.opcode = FetchedOpcode
          /\ emu.cycles = BaseCycles(FetchedOpcode) + Surcharges
    /\ IdleTick => emu = [pre EXCEPT !.cycles = pre.cycles - 1]

(* C1, amended.  A tick that finds the counter non-zero only decrements    *)
(* it.  A tick that finds it at zero fetches the opcode at PC, runs that   *)
(* one instruction and, unless the instruction panics, decrements as well: *)
(* the counter is left at base + surcharges - 1, the fetching tick being   *)
(* the instruction's first cycle.                                          *)
C1_FetchTickAlsoDecrements ==
    /\ FetchTick => emu.opcode = FetchedOpcode
    /\ FetchTick /\ Ok(emu) =>
          emu.cycles = BaseCycles(FetchedOpcode) + Surcharges - 1
    /\ IdleTick => emu = [pre EXCEPT !.cycles = pre.cycles - 1]

\* a taken BNE that crosses a page has just been fetched: 2 + 2 - 1 cycles left
C1_Witness ==
    /\ FetchTick /\ Ok(emu)
    /\ FetchedOpcode = 208
    /\ emu.cycles = 3

(* C2.  reset() from any state loads PC from the reset vector, zeroes A, X *)
(* and Y, sets SP to 0xFD, clears the flag byte and the resolved address,  *)
(* the relative offset and the fetched operand, and leaves memory alone.   *)
C2_ResetFromAnyState ==
    last.op = "reset" =>
        /\ emu.program_counter = Word(pre.memory, 65532)
        /\ emu.a_reg = 0 /\ emu.x_reg = 0 /\ emu.y_reg = 0
        /\ emu.stack_pointer = 253
        /\ emu.cpu_flags = 0
        /\ emu.address_absolute = 0
        /\ emu.address_relative = 0
        /\ emu.fetched_data = 0
        /\ emu.memory = pre.memory

\* a reset of a core whose registers, flags and context were all in use
C2_Witness ==
    /\ last.op = "reset"
    /\ pre.a_reg # 0 /\ pre.x_reg # 0
    /\ pre.cpu_flags # 0
    /\ pre.stack_pointer # 253
    /\ pre.address_absolute # 0
    /\ pre.program_counter # emu.program_counter
    /\ emu.program_counter # 0

(* C3.  As claimed: irq() with interrupt-disable set changes nothing; with *)
(* it clear irq() enters the handler at the 0xFFFE vector; nmi() enters    *)
(* the handler at the 0xFFFA vector whatever the flag.                     *)
C3_IrqMaskedNmiNot ==
    /\ last.op = "irq" /\ Bit(pre.cpu_flags, 2) = 1 => emu = pre
    /\ last.op = "irq" /\ Bit(pre.cpu_flags, 2) = 0 =>
          Ok(emu) /\ emu.program_counter = Word(pre.memory, 65534)
    /\ last.op = "nmi" =>
          Ok(emu) /\ emu.program_counter = Word(pre.memory, 65530)

(* C4.  As claimed: interrupt entry from PC = p, SP = s pushes high(p),    *)
(* low(p) and the flag byte at 0x0100+s, s-1, s-2 (mod 256), leaves        *)
(* SP = s-3 (mod 256) without trapping, sets interrupt-disable, loads PC   *)
(* from the vector and charges 8 (NMI) or 7 (IRQ) cycles.                  *)
C4_InterruptEntry ==
    Entering =>
        LET p == pre.program_counter
            s == pre.stack_pointer
        IN  /\ Ok(emu)
            /\ Byte(emu.memory, 256 + s) = p \div 256
            /\ Byte(emu.memory, 256 + ((s - 1) % 256)) = p % 256
            /\ WithoutBreakBits(Byte(emu.memory, 256 + ((s - 2) % 256)))
                 \in {WithoutBreakBits(pre.cpu_flags),
                      WithoutBreakBits(emu.cpu_flags)}
            /\ emu.stack_pointer = (s - 3) % 256
            /\ Bit(emu.cpu_flags, 2) = 1
            /\ emu.program_counter =
                 Word(pre.memory, IF last.op = "nmi" THEN 65530 ELSE 65534)
            /\ emu.cycles = (IF last.op = "nmi" THEN 8 ELSE 7)

(* C5.  As claimed: an RTI fetched right after an interrupt entry from     *)
(* PC = p, SP = s leaves PC = p and SP = s.                                *)
C5_RtiRestoresPcSp ==
    FetchTick /\ FetchedOpcode = 64 /\ last.entry.kind # "none" =>
        /\ emu.program_counter = last.entry.p
        /\ emu.stack_pointer = last.entry.s

(* C6.  As claimed: an RTI fetched right after an honored irq() taken with *)
(* flag byte f leaves the flag byte equal to f with bits 4 and 5 cleared,  *)
(* so interrupt-disable is clear again; bits 4 and 5 are 0 after any RTI.  *)
C6_FlagsSurviveIrq ==
    /\ FetchTick /\ FetchedOpcode = 64 /\ last.entry.kind = "irq" =>
          /\ emu.cpu_flags = WithoutBreakBits(last.entry.f)
          /\ Bit(emu.cpu_flags, 2) = 0
    /\ FetchTick /\ FetchedOpcode = 64 /\ Ok(emu) =>
          Bit(emu.cpu_flags, 4) = 0 /\ Bit(emu.cpu_flags, 5) = 0

(* C7.  As claimed: BRK fetched through a tick pushes PC (high, low) and   *)
(* the flag byte with bit 4 set, sets interrupt-disable, lowers SP by 3    *)
(* and loads PC from the 0xFFFE vector.                                    *)
C7_BrkIsSoftwareInterrupt ==
    FetchTick /\ FetchedOpcode = 0 =>
        LET s == pre.stack_pointer
        IN  /\ Byte(emu.memory, 256 + s)
                 \in {pre.program_counter \div 256,
                      ((pre.program_counter + 1) % U16) \div 256,
                      ((pre.program_counter + 2) % U16) \div 256}
            /\ Bit(Byte(emu.memory, 256 + ((s - 2) % 256)), 4) = 1
            /\ Bit(emu.cpu_flags, 2) = 1
            /\ emu.stack_pointer = (s - 3) % 256
            /\ emu.program_counter = Word(pre.memory, 65534)

----------------------------------------------------------------------------
(* The arithmetic and the zero-page resolvers, called directly.            *)

\* what adc() was entered with
AdcA == pre.a_reg
AdcOperand == Byte(pre.memory, pre.address_absolute)
AdcCarryIn == Bit(pre.cpu_flags, 0)

\* a byte read as a signed 8-bit number
Signed(byte) == IF byte >= 128 THEN byte - 256 ELSE byte

(* C8.  For all 8-bit a, b and carry-in c, ADC leaves A = (a+b+c) mod 256  *)
(* and the carry flag set iff a+b+c > 255.                                 *)
C8_AdcSumAndCarry ==
    last.op = "adc" =>
        /\ Ok(emu)
        /\ emu.a_reg = (AdcA + AdcOperand + AdcCarryIn) % 256
        /\ Bit(emu.cpu_flags, 0) = 1 <=> AdcA + AdcOperand + AdcCarryIn > 255

\* 0xFF + 0xFF + 1: the sum that needs the carry-in to come out as 0xFF
C8_Witness ==
    /\ last.op = "adc"
    /\ AdcA = 255 /\ AdcOperand = 255 /\ AdcCarryIn = 1
    /\ emu.a_reg = 255
    /\ Bit(emu.cpu_flags, 0) = 1

(* C9.  As claimed: after ADC the overflow flag (bit 6) is set iff the     *)
(* signed 8-bit addition overflows, and cleared otherwise.                 *)
C9_AdcOverflowFlag ==
    last.op = "adc" =>
        (Bit(emu.cpu_flags, 6) = 1 <=>
            Signed(AdcA) + Signed(AdcOperand) + AdcCarryIn \notin -128..127)

(* C10.  As claimed: zero page,X and zero page,Y resolve operand o and     *)
(* index i to (o + i) mod 256, inside page zero, and never fault.          *)
C10_ZeroPageIndexedWraps ==
    last.op \in {"zero_page_x_mode", "zero_page_y_mode"} =>
        LET o == Byte(pre.memory, pre.program_counter + 1)
            i == IF last.op = "zero_page_x_mode" THEN pre.x_reg ELSE pre.y_reg
        IN  /\ Ok(emu)
            /\ emu.address_absolute = (o + i) % 256
            /\ emu.address_absolute \in 0..255

----------------------------------------------------------------------------
\* the pointer indirect_mode() was handed: the two operand bytes after the
\* opcode, low byte first
Pointer == Word(pre.memory, pre.program_counter + 1)

(* C11.  Indirect addressing takes the low byte of the target from the     *)
(* byte the pointer names; it takes the high byte from the first byte of   *)
(* the pointer's page when the pointer's low byte is 0xFF, and from the    *)
(* byte after the pointer otherwise.                                       *)
C11_IndirectPageWrap ==
    last.op = "indirect_mode" =>
        /\ Ok(emu)
        /\ emu.address_absolute % 256 = Byte(pre.memory, Pointer)
        /\ emu.address_absolute \div 256 =
              IF Pointer % 256 = 255
              THEN Byte(pre.memory, Pointer - 255)
              ELSE Byte(pre.memory, Pointer + 1)

\* the pointer 0x02FF was resolved, and the high byte came from 0x0200 where
\* 0x0300 holds something else
C11_Witness ==
    /\ last.op = "indirect_mode"
    /\ Pointer = 767
    /\ Byte(pre.memory, 512) # Byte(pre.memory, 768)
    /\ emu.address_absolute \div 256 = Byte(pre.memory, 512)

----------------------------------------------------------------------------
(* C12.  A push writes the accumulator at 0x0100 + SP and then decrements  *)
(* SP modulo 256; a pull increments SP modulo 256 and then reads; so a     *)
(* push followed at once by a pull gives back the accumulator and the      *)
(* stack pointer the push was made with, for every stack pointer.          *)
C12_StackRoundTrip ==
    /\ last.op = "pha" =>
          /\ Ok(emu)
          /\ Byte(emu.memory, 256 + pre.stack_pointer) = pre.a_reg
          /\ emu.stack_pointer = (pre.stack_pointer + 255) % 256
    /\ last.op = "pla" =>
          /\ Ok(emu)
          /\ emu.stack_pointer = (pre.stack_pointer + 1) % 256
          /\ emu.a_reg = Byte(pre.memory, 256 + emu.stack_pointer)
          /\ emu.a_reg = entry.p
          /\ emu.stack_pointer = entry.s

----------------------------------------------------------------------------
\* a byte sign-extended to 16 bits
SignExtend(b) == IF b >= 128 THEN 65280 + b ELSE b

\* the last call was a tick that fetched BNE
BneTick == FetchTick /\ FetchedOpcode = 208

\* the operand byte of the instruction the last tick fetched, the address of
\* the instruction after a two-byte one, and where a branch with that operand
\* goes
OperandByte == Byte(pre.memory, pre.program_counter + 1)
NextInstruction == (pre.program_counter + 2) % U16
BranchTarget == (NextInstruction + SignExtend(OperandByte)) % U16

\* what the instruction the last tick ran was charged: the tick itself was
\* its first cycle
Charged == emu.cycles + 1

(* C13.  BNE with the zero flag clear is charged its base cost plus 1 when *)
(* the branch target is on the page of the next instruction and plus 2     *)
(* when it is on another page; with the zero flag set it is charged the    *)
(* base cost and PC is the address of the next instruction.                *)
C13_BneTiming ==
    BneTick =>
        /\ Ok(emu)
        /\ Bit(pre.cpu_flags, 1) = 0 =>
              Charged = BaseCycles(208) +
                  (IF BranchTarget \div 256 = NextInstruction \div 256
                   THEN 1 ELSE 2)
        /\ Bit(pre.cpu_flags, 1) = 1 =>
              /\ Charged = BaseCycles(208)
              /\ emu.program_counter = NextInstruction

----------------------------------------------------------------------------
\* the last tick ran the instruction with this opcode
Ran(opcode) == FetchTick /\ FetchedOpcode = opcode

\* the instruction the last tick ran is the one the tick before it ran too
RanTwice(opcode) == Ran(opcode) /\ calls.instr = 2 /\ pre.opcode = opcode

\* the last call left the accumulator, the index registers, the stack
\* pointer and memory alone
DataUntouched ==
    /\ emu.a_reg = pre.a_reg
    /\ emu.x_reg = pre.x_reg
    /\ emu.y_reg = pre.y_reg
    /\ emu.stack_pointer = pre.stack_pointer
    /\ emu.memory = pre.memory

\* the flag byte differs from the one before the call in bit n at most
OnlyFlagBit(n) == \A k \in (0..7) \ {n} : Bit(emu.cpu_flags, k) = Bit(pre.cpu_flags, k)

(* C14.  SEI sets bit 2 of the flag byte and CLD clears bit 3; neither     *)
(* changes another flag bit, A, X, Y, SP or memory, and running the same   *)
(* one a second time leaves the flag byte as the first run left it.        *)
C14_FlagInstructions ==
    /\ Ran(120) =>
          /\ Ok(emu) /\ DataUntouched
          /\ OnlyFlagBit(2) /\ Bit(emu.cpu_flags, 2) = 1
    /\ Ran(216) =>
          /\ Ok(emu) /\ DataUntouched
          /\ OnlyFlagBit(3) /\ Bit(emu.cpu_flags, 3) = 0
    /\ RanTwice(120) \/ RanTwice(216) => emu.cpu_flags = pre.cpu_flags

\* CLD ran twice on a flag byte that had the decimal bit and others set
C14_Witness ==
    /\ RanTwice(216)
    /\ emu.cpu_flags = 255 - 8

----------------------------------------------------------------------------
(* C15.  A tick that fetches an opcode byte the instruction table has no   *)
(* entry for ends in the missing-opcode fault: the core is halted, and PC, *)
(* the registers, the flag byte and memory are as they were.               *)
C15_UnknownOpcodeFaults ==
    FetchTick /\ FetchedOpcode \notin DOMAIN INSTRUCTION_TABLE =>
        /\ emu.panic = OpcodeNotInTable
        /\ ~ENABLED ExecuteTick
        /\ emu.program_counter = pre.program_counter
        /\ emu.cpu_flags = pre.cpu_flags
        /\ DataUntouched

\* the byte 0xEA (NOP on the hardware) was fetched, with flags set
C15_Witness ==
    /\ Ran(234)
    /\ pre.cpu_flags = 255
    /\ emu.panic = OpcodeNotInTable

----------------------------------------------------------------------------
(* C16.  TXS copies X into the stack pointer and leaves the flag byte as   *)
(* it was, whatever X and the flag byte are.                               *)
C16_TxsKeepsFlags ==
    Ran(154) =>
        /\ Ok(emu)
        /\ emu.stack_pointer = pre.x_reg
        /\ emu.cpu_flags = pre.cpu_flags

----------------------------------------------------------------------------
(* C17.  A tick that finds the counter non-zero lowers it by one and       *)
(* leaves A, X, Y, SP, PC, the flag byte, the current opcode, the resolved *)
(* addresses and memory as they were; so an opcode is fetched only by a    *)
(* tick that finds the counter at zero.                                    *)
C17_IdleTicksOnlyCount ==
    /\ IdleTick =>
          /\ Ok(emu)
          /\ emu.cycles = pre.cycles - 1
          /\ DataUntouched
          /\ emu.program_counter = pre.program_counter
          /\ emu.cpu_flags = pre.cpu_flags
          /\ emu.opcode = pre.opcode
          /\ emu.address_absolute = pre.address_absolute
          /\ emu.address_relative = pre.address_relative
    /\ last.op = "clock" /\ emu.opcode # pre.opcode => pre.cycles = 0

\* the last of the idle ticks of an LDA: the counter went from 1 to 0 with
\* the loaded value in place
C17_Witness ==
    /\ IdleTick
    /\ pre.opcode = 169
    /\ pre.cycles = 1 /\ emu.cycles = 0
    /\ emu.a_reg # 0

----------------------------------------------------------------------------
(* C18.  Running an opcode that has an entry in the instruction table      *)
(* never ends in the fault of an unmatched addressing mode, of an operand  *)
(* fetch without a case for the mode, or of an unmatched operation.        *)
C18_TableOpcodesDispatch ==
    FetchTick /\ FetchedOpcode \in DOMAIN INSTRUCTION_TABLE =>
        emu.panic \notin {AddressingModeNotInTable, UnknownAddressingState,
                          OperationNotInTable}

----------------------------------------------------------------------------
(* C19.  Relative addressing takes the one byte after the opcode and sets  *)
(* the relative offset to that byte sign-extended to 16 bits, whatever the *)
(* other bytes of memory are; a taken BNE at p then lands at p + 2 plus    *)
(* the sign-extended byte, modulo 65536.                                   *)
C19_RelativeSignExtends ==
    BneTick =>
        /\ Ok(emu)
        /\ emu.address_relative = SignExtend(OperandByte)
        /\ Bit(pre.cpu_flags, 1) = 0 => emu.program_counter = BranchTarget

----------------------------------------------------------------------------
(* C20.  Running an instruction through a tick leaves PC past the opcode   *)
(* and its operand bytes: one further for the implied SEI, CLD, DEX, INX   *)
(* and TXS, two further for the immediate LDA and LDX, for STA zero page,X *)
(* and for a BNE that is not taken.                                        *)
C20_PcAdvance ==
    /\ FetchTick /\ FetchedOpcode \in {120, 216, 202, 232, 154} =>
          Ok(emu) /\ emu.program_counter = pre.program_counter + 1
    /\ FetchTick /\ FetchedOpcode \in {169, 162, 149} =>
          Ok(emu) /\ emu.program_counter = pre.program_counter + 2
    /\ BneTick /\ Bit(pre.cpu_flags, 1) = 1 =>
          Ok(emu) /\ emu.program_counter = pre.program_counter + 2

----------------------------------------------------------------------------
\* the zero and negative bits of the flag byte are those of this byte
ZeroNegativeOf(byte) ==
    /\ Bit(emu.cpu_flags, 1) = (IF byte = 0 THEN 1 ELSE 0)
    /\ Bit(emu.cpu_flags, 7) = Bit(byte, 7)

(* C21.  INX sets X to X + 1 and DEX sets X to X - 1, modulo 256, and each *)
(* then has the zero bit set iff the new X is 0 and the negative bit set   *)
(* iff bit 7 of the new X is 1, whatever the flags were.                   *)
C21_InxDexFlags ==
    /\ Ran(232) =>
          /\ Ok(emu)
          /\ emu.x_reg = (pre.x_reg + 1) % 256
          /\ ZeroNegativeOf(emu.x_reg)
    /\ Ran(202) =>
          /\ Ok(emu)
          /\ emu.x_reg = (pre.x_reg + 255) % 256
          /\ ZeroNegativeOf(emu.x_reg)

----------------------------------------------------------------------------
\* the carry, interrupt-disable, decimal and overflow bits are as before the
\* last call
OtherFlagsKept ==
    \A k \in {0, 2, 3, 6} : Bit(emu.cpu_flags, k) = Bit(pre.cpu_flags, k)

(* C22.  LDA #v sets A, and LDX #v sets X, to the byte after the opcode,   *)
(* sets the zero bit iff v is 0 and the negative bit iff bit 7 of v is 1,  *)
(* and leaves the carry, interrupt-disable, decimal and overflow bits, the *)
(* other registers, SP and memory as they were.                            *)
C22_ImmediateLoads ==
    /\ Ran(169) =>
          /\ Ok(emu)
          /\ emu.a_reg = OperandByte
          /\ ZeroNegativeOf(OperandByte)
          /\ OtherFlagsKept
          /\ emu.x_reg = pre.x_reg /\ emu.y_reg = pre.y_reg
          /\ emu.stack_pointer = pre.stack_pointer
          /\ emu.memory = pre.memory
    /\ Ran(162) =>
          /\ Ok(emu)
          /\ emu.x_reg = OperandByte
          /\ ZeroNegativeOf(OperandByte)
          /\ OtherFlagsKept
          /\ emu.a_reg = pre.a_reg /\ emu.y_reg = pre.y_reg
          /\ emu.stack_pointer = pre.stack_pointer
          /\ emu.memory = pre.memory

----------------------------------------------------------------------------
(* C23.  STA writes the accumulator to the byte at the resolved address    *)
(* and does nothing else: memory differs from before in that byte at most, *)
(* and A, X, Y, SP and the flag byte are as they were.                     *)
C23_StaFrame ==
    Ran(149) =>
        /\ Ok(emu)
        /\ emu.memory = MemSet(pre.memory, emu.address_absolute, pre.a_reg)
        /\ emu.a_reg = pre.a_reg
        /\ emu.x_reg = pre.x_reg /\ emu.y_reg = pre.y_reg
        /\ emu.stack_pointer = pre.stack_pointer
        /\ emu.cpu_flags = pre.cpu_flags

----------------------------------------------------------------------------
(* C24.  Entering an interrupt changes the live flag byte only by setting  *)
(* the interrupt-disable bit, and once reset() has run, bits 4 and 5 of    *)
(* the live flag byte are 0 in every state.                                *)
C24_BreakBitsOnlyPushed ==
    /\ Entering /\ Ok(emu) =>
          /\ OnlyFlagBit(2)
          /\ Bit(emu.cpu_flags, 2) = 1
    /\ calls.reset > 0 =>
          /\ Bit(emu.cpu_flags, 4) = 0
          /\ Bit(emu.cpu_flags, 5) = 0

----------------------------------------------------------------------------
\* the pointer (indirect),Y names: the little-endian word in page zero at the
\* operand byte, wrapping inside the page; and the address Y away from it
ZeroPagePointer ==
    Byte(pre.memory, OperandByte) + 256 * Byte(pre.memory, (OperandByte + 1) % 256)
IndexedByY == (ZeroPagePointer + pre.y_reg) % U16

(* C25.  (Indirect),Y resolves to the zero-page pointer plus Y, modulo     *)
(* 65536, and reports one extra cycle iff that address is on another page  *)
(* than the pointer, none otherwise.                                       *)
C25_IndirectYAddsY ==
    last.op = "indirect_mode_page_zero_y" =>
        /\ Ok(emu)
        /\ emu.address_absolute = IndexedByY
        /\ emu.cycles = pre.cycles +
              (IF IndexedByY \div 256 # ZeroPagePointer \div 256 THEN 1 ELSE 0)

----------------------------------------------------------------------------
(* C26.  After ADC the zero bit is set iff the sum of A, the operand and   *)
(* the carry, modulo 256, is 0, and the negative bit is set iff bit 7 of   *)
(* that 8-bit result is 1.                                                 *)
C26_AdcZeroNegative ==
    last.op = "adc" =>
        /\ Ok(emu)
        /\ ZeroNegativeOf((AdcA + AdcOperand + AdcCarryIn) % 256)

----------------------------------------------------------------------------
\* the counter is running down
Counting == emu.cycles > 0

\* a fetching tick leaves the counter one short of the instruction's cost,
\* and every other tick takes one more off
TicksCountCost ==
    /\ FetchTick /\ Ok(emu) =>
          Charged = BaseCycles(FetchedOpcode) + Surcharges
    /\ IdleTick => emu.cycles + 1 = pre.cycles

(* C27.  An instruction lasts as many ticks as its base cost plus its      *)
(* surcharges, the fetching tick included, and under repeated ticking the  *)
(* counter always comes back to zero for the next fetch: while it is not   *)
(* zero, a tick can be taken and takes one off.                            *)
C27_InstructionDuration ==
    /\ TicksCountCost
    /\ Counting => ENABLED Clock

----------------------------------------------------------------------------
\* the loop has been left: the program counter is past the branch
LoopLeft == emu.program_counter = entry.p + 5

\* how many times DEX has run: the loop fetches LDX once and then DEX and BNE
\* in turn
DexRuns == calls.instr \div 2

\* while the loop runs nothing faults, PC is at one of its instructions, and
\* X is the count less the DEX runs so far; it is left only after exactly n
\* DEX runs, with X = 0 and the zero bit set
CountdownSteps ==
    /\ Ok(emu)
    /\ emu.program_counter \in {entry.p, entry.p + 2, entry.p + 3, entry.p + 5}
    /\ calls.instr >= 1 => emu.x_reg = entry.s - DexRuns
    /\ LoopLeft =>
          /\ calls.instr = 1 + 2 * entry.s
          /\ emu.x_reg = 0
          /\ Bit(emu.cpu_flags, 1) = 1

----------------------------------------------------------------------------
(* C29.  Once reset() has run, whatever ticks and interrupts follow, the   *)
(* counter is between 0 and 8, and no tick takes one off a counter that is *)
(* zero: the decrement of clock() neither traps nor wraps.                 *)
C29_CounterBounds ==
    /\ emu.cycles \in 0..8
    /\ last.op = "clock" =>
          /\ emu.panic # SubOverflow
          /\ Ok(emu) => emu.cycles < 8
          /\ FetchTick /\ Ok(emu) => emu.cycles >= 1

\* an interrupt taken in the middle of an instruction: the counter was not
\* zero and became 7
C29_Witness ==
    /\ last.op = "irq"
    /\ Ok(emu)
    /\ pre.cycles \in 1..6
    /\ pre.opcode # 0
    /\ emu.cycles = 7

----------------------------------------------------------------------------
(* C30.  read_address(addr) returns the little-endian word at addr, the    *)
(* low byte from addr and the high byte from addr + 1, and changes no      *)
(* register, the program counter included.                                 *)
C30_ReadAddressLittleEndian ==
    last.op = "read_address" /\ entry.p + 1 < MEMORY_SIZE =>
        /\ Ok(emu)
        /\ entry.f = Byte(pre.memory, entry.p) + 256 * Byte(pre.memory, entry.p + 1)
        /\ emu = pre

====
